---- MODULE Spec2Model ----
(***************************************************************************)
(* A model of datasetinsights/visualization/plots.py: the bounding-box     *)
(* annotator `add`, the batch annotator `plot_bboxes` and the segmentation *)
(* decoder `decode_segmap`.                                                *)
(*                                                                         *)
(* Python values are records [t, n, s, float]: t is the Python type, n an  *)
(* integer payload, s the text of a str (a sequence of Unicode code        *)
(* points) and float the kind of a float ("finite", "inf", "nan").         *)
(* Images are records [kind, h, w, px] with px a function from <<row,col>> *)
(* to a pixel, a triple of channel values 0..255.                          *)
(***************************************************************************)
EXTENDS Integers, Sequences, FiniteSets, TLC

(***************************************************************************)
(* Bounds of the model.                                                    *)
(***************************************************************************)
\* width and height of the image buffers that are annotated
ImgW == 20
ImgH == 18
\* number of add calls in one behaviour of SpecSeq
MaxCalls == 2
\* number of boxes handed to plot_bboxes
MaxBoxes == 2
\* width and height of the image handed to plot_bboxes
BatchW == 640
BatchH == 480
\* height and width of the label arrays handed to decode_segmap
SegH == 2
SegW == 2

(***************************************************************************)
(* Python values.                                                          *)
(***************************************************************************)
PyNone == [t |-> "NoneType", n |-> 0, s |-> <<>>, float |-> ""]
PyInt(v) == [t |-> "int", n |-> v, s |-> <<>>, float |-> ""]
\* a finite float, held in tenths: PyFloat(107) is 10.7
PyFloat(tenths) == [t |-> "float", n |-> tenths, s |-> <<>>, float |-> "finite"]
PyInf == [t |-> "float", n |-> 0, s |-> <<>>, float |-> "inf"]
PyNaN == [t |-> "float", n |-> 0, s |-> <<>>, float |-> "nan"]
\* a str, by its code points
PyStr(chars) == [t |-> "str", n |-> 0, s |-> chars, float |-> ""]
\* a list of n items (only its length matters to the code modelled here)
PyList(len) == [t |-> "list", n |-> len, s |-> <<>>, float |-> ""]

\* the printable ASCII characters, from code point 32 to 126 (the grave accent,
\* code point 96, cannot be written in a string and is left empty)
Ascii ==
    <<" ", "!", "\"", "#", "$", "%", "&", "'", "(", ")", "*", "+", ",", "-", ".", "/",
      "0", "1", "2", "3", "4", "5", "6", "7", "8", "9", ":", ";", "<", "=", ">", "?",
      "@", "A", "B", "C", "D", "E", "F", "G", "H", "I", "J", "K", "L", "M", "N", "O",
      "P", "Q", "R", "S", "T", "U", "V", "W", "X", "Y", "Z", "[", "\\", "]", "^", "_",
      "", "a", "b", "c", "d", "e", "f", "g", "h", "i", "j", "k", "l", "m", "n", "o",
      "p", "q", "r", "s", "t", "u", "v", "w", "x", "y", "z", "{", "|", "}", "~">>

\* ord(c) of a printable ASCII character
Ord(c) == 31 + CHOOSE k \in 1..Len(Ascii) : Ascii[k] = c

\* the code points of a text written as a string literal, character by character
Text(chars) == [k \in 1..Len(chars) |-> Ord(chars[k])]

\* Python truthiness, as used by `if label`, `not color`
Truthy(v) ==
    CASE v.t = "NoneType" -> FALSE
      [] v.t = "int" -> v.n # 0
      [] v.t = "float" -> ~(v.float = "finite" /\ v.n = 0)
      [] v.t = "str" -> Len(v.s) > 0
      [] v.t = "list" -> v.n > 0
      [] OTHER -> TRUE

Min(a, b) == IF a < b THEN a ELSE b
Max(a, b) == IF a > b THEN a ELSE b

\* The zeros of the decimal digits of Unicode (category Nd, Unicode 14): the ten
\* digits of a script are consecutive code points, from its zero.
DigitZeros ==
    {48, 1632, 1776, 1984, 2406, 2534, 2662, 2790, 2918, 3046, 3174, 3302,
     3430, 3558, 3664, 3792, 3872, 4160, 4240, 6112, 6160, 6470, 6608,
     6784, 6800, 6992, 7088, 7232, 7248, 42528, 43216, 43264, 43472, 43504,
     43600, 44016, 65296, 66720, 68912, 69734, 69872, 69942, 70096, 70384,
     70736, 70864, 71248, 71360, 71472, 71904, 72016, 72784, 73040, 73120,
     92768, 92864, 93008, 120782, 120792, 120802, 120812, 120822, 123200,
     123632, 125264, 130032}

IsDigit(c) == \E z \in DigitZeros : z <= c /\ c <= z + 9
DigitValue(c) == c - (CHOOSE z \in DigitZeros : z <= c /\ c <= z + 9)

Underscore == 95

\* the value of a run of digits, the underscores between them skipped
DigitsValue(chars) ==
    LET val[k \in 0..Len(chars)] ==
            IF k = 0 THEN 0
            ELSE IF chars[k] = Underscore THEN val[k - 1]
            ELSE 10 * val[k - 1] + DigitValue(chars[k])
    IN  val[Len(chars)]

\* the code points int() skips at both ends of a string: tab, line feed,
\* vertical tab, form feed, carriage return, space, and the spaces of Unicode
\* outside ASCII (next line, no-break space, ogham space, en quad to hair
\* space, line and paragraph separator, narrow no-break space, medium
\* mathematical space, ideographic space)
Whitespace ==
    {9, 10, 11, 12, 13, 32, 133, 160, 5760} \cup (8192..8202)
        \cup {8232, 8233, 8239, 8287, 12288}

\* chars without its leading and trailing whitespace
Strip(chars) ==
    LET inked == {k \in 1..Len(chars) : chars[k] \notin Whitespace}
        first == CHOOSE k \in inked : \A j \in inked : k <= j
        last == CHOOSE k \in inked : \A j \in inked : j <= k
    IN  IF inked = {} THEN <<>> ELSE SubSeq(chars, first, last)

\* a decimal integer literal without its sign: digits, with single underscores
\* between them
IsDecimal(body) ==
    /\ Len(body) > 0
    /\ \A k \in 1..Len(body) : IsDigit(body[k]) \/ body[k] = Underscore
    /\ IsDigit(body[1]) /\ IsDigit(body[Len(body)])
    /\ \A k \in 1..(Len(body) - 1) :
          ~(body[k] = Underscore /\ body[k + 1] = Underscore)

\* int(x) of line 401: the integer, or the exception int() raises.  A string is
\* stripped of surrounding whitespace, then read as an optional sign and a
\* decimal literal.
PyToInt(v) ==
    CASE v.t = "int" -> [ok |-> TRUE, n |-> v.n, exc |-> "none"]
      [] v.t = "float" /\ v.float = "finite" ->
            \* truncation toward zero
            [ok |-> TRUE,
             n |-> IF v.n >= 0 THEN v.n \div 10 ELSE -((-v.n) \div 10),
             exc |-> "none"]
      [] v.t = "float" /\ v.float = "inf" ->
            [ok |-> FALSE, n |-> 0, exc |-> "OverflowError"]
      [] v.t = "float" /\ v.float = "nan" ->
            [ok |-> FALSE, n |-> 0, exc |-> "ValueError"]
      [] v.t = "str" ->
            LET text == Strip(v.s)
                signed == Len(text) > 0 /\ text[1] \in {Ord("-"), Ord("+")}
                body == IF signed THEN Tail(text) ELSE text
                neg == signed /\ text[1] = Ord("-")
            IN  IF IsDecimal(body)
                THEN [ok |-> TRUE,
                      n |-> IF neg THEN -DigitsValue(body) ELSE DigitsValue(body),
                      exc |-> "none"]
                ELSE [ok |-> FALSE, n |-> 0, exc |-> "ValueError"]
      [] OTHER -> [ok |-> FALSE, n |-> 0, exc |-> "TypeError"]

(***************************************************************************)
(* label.encode(): the UTF-8 bytes of a text.                              *)
(***************************************************************************)
\* a surrogate has no UTF-8 encoding: str.encode() raises UnicodeEncodeError
IsSurrogate(c) == 55296 <= c /\ c <= 57343

Encodable(chars) == \A k \in 1..Len(chars) : ~IsSurrogate(chars[k])

\* the UTF-8 bytes of one code point
Utf8(c) ==
    IF c < 128 THEN <<c>>
    ELSE IF c < 2048 THEN <<192 + (c \div 64), 128 + (c % 64)>>
    ELSE IF c < 65536
    THEN <<224 + (c \div 4096), 128 + ((c \div 64) % 64), 128 + (c % 64)>>
    ELSE <<240 + (c \div 262144), 128 + ((c \div 4096) % 64),
           128 + ((c \div 64) % 64), 128 + (c % 64)>>

Encode(chars) ==
    LET enc[k \in 0..Len(chars)] ==
            IF k = 0 THEN <<>> ELSE enc[k - 1] \o Utf8(chars[k])
    IN  enc[Len(chars)]

(***************************************************************************)
(* hashlib.md5 (RFC 1321) on a message of at most 55 bytes.  A 32-bit word *)
(* is a pair <<high 16 bits, low 16 bits>>.                                *)
(***************************************************************************)
Half == 65536

\* op 1: and, 2: or, 3: xor, on n-bit operands
Bits16(op, x, y, n) ==
    LET bits[a \in (0..(Half - 1)) \X (0..(Half - 1)) \X (0..16)] ==
            IF a[3] = 0 THEN 0
            ELSE LET p == a[1] % 2
                     q == a[2] % 2
                     r == CASE op = 1 -> p * q
                            [] op = 2 -> IF p + q > 0 THEN 1 ELSE 0
                            [] OTHER -> (p + q) % 2
                 IN  r + 2 * bits[<<a[1] \div 2, a[2] \div 2, a[3] - 1>>]
    IN  bits[<<x, y, n>>]

WAnd(x, y) == <<Bits16(1, x[1], y[1], 16), Bits16(1, x[2], y[2], 16)>>
WOr(x, y) == <<Bits16(2, x[1], y[1], 16), Bits16(2, x[2], y[2], 16)>>
WXor(x, y) == <<Bits16(3, x[1], y[1], 16), Bits16(3, x[2], y[2], 16)>>
WNot(x) == <<Half - 1 - x[1], Half - 1 - x[2]>>
WAdd(x, y) ==
    LET lo == x[2] + y[2]
    IN  <<(x[1] + y[1] + (lo \div Half)) % Half, lo % Half>>

Pow2(n) == LET pow[k \in 0..16] == IF k = 0 THEN 1 ELSE 2 * pow[k - 1] IN pow[n]

\* rotate left by k, 0 < k < 32
WRotl(x, k) ==
    LET y == IF k >= 16 THEN <<x[2], x[1]>> ELSE x
        j == k % 16
    IN  IF j = 0 THEN y
        ELSE <<((y[1] * Pow2(j)) % Half) + (y[2] \div Pow2(16 - j)),
               ((y[2] * Pow2(j)) % Half) + (y[1] \div Pow2(16 - j))>>

Md5K ==
    << <<55146, 42104>>, <<59591, 46934>>, <<9248, 28891>>, <<49597, 52974>>,
       <<62844, 4015>>, <<18311, 50730>>, <<43056, 17939>>, <<64838, 38145>>,
       <<27008, 39128>>, <<35652, 63407>>, <<65535, 23473>>, <<35164, 55230>>,
       <<27536, 4386>>, <<64920, 29075>>, <<42617, 17294>>, <<18868, 2081>>,
       <<63006, 9570>>, <<49216, 45888>>, <<9822, 23121>>, <<59830, 51114>>,
       <<54831, 4189>>, <<580, 5203>>, <<55457, 59009>>, <<59347, 64456>>,
       <<8673, 52710>>, <<49975, 2006>>, <<62677, 3463>>, <<17754, 5357>>,
       <<43491, 59653>>, <<64751, 41976>>, <<26479, 729>>, <<36138, 19594>>,
       <<65530, 14658>>, <<34673, 63105>>, <<28061, 24866>>, <<64997, 14348>>,
       <<42174, 59972>>, <<19422, 53161>>, <<63163, 19296>>, <<48831, 48240>>,
       <<10395, 32454>>, <<60065, 10234>>, <<54511, 12421>>, <<1160, 7429>>,
       <<55764, 53305>>, <<59099, 39397>>, <<8098, 31992>>, <<50348, 22117>>,
       <<62505, 8772>>, <<17194, 65431>>, <<43924, 9127>>, <<64659, 41017>>,
       <<25947, 22979>>, <<36620, 52370>>, <<65519, 62589>>, <<34180, 24017>>,
       <<28584, 32335>>, <<65068, 59104>>, <<41729, 17172>>, <<19976, 4513>>,
       <<63315, 32386>>, <<48442, 62005>>, <<10967, 53947>>, <<60294, 54161>> >>

Md5S ==
    << 7, 12, 17, 22, 7, 12, 17, 22, 7, 12, 17, 22, 7, 12, 17, 22,
       5, 9, 14, 20, 5, 9, 14, 20, 5, 9, 14, 20, 5, 9, 14, 20,
       4, 11, 16, 23, 4, 11, 16, 23, 4, 11, 16, 23, 4, 11, 16, 23,
       6, 10, 15, 21, 6, 10, 15, 21, 6, 10, 15, 21, 6, 10, 15, 21 >>

Md5Init == << <<26437, 8961>>, <<61389, 43913>>, <<39098, 56574>>, <<4146, 21622>> >>

Zeros55 ==
    << 0, 0, 0, 0, 0, 0, 0, 0, 0, 0, 0, 0, 0, 0, 0, 0, 0, 0, 0, 0,
       0, 0, 0, 0, 0, 0, 0, 0, 0, 0, 0, 0, 0, 0, 0, 0, 0, 0, 0, 0,
       0, 0, 0, 0, 0, 0, 0, 0, 0, 0, 0, 0, 0, 0, 0 >>

\* the padded 64-byte block of a message of at most 55 bytes: the message, the
\* byte 0x80, zeros, and the length in bits as 8 little-endian bytes
Md5Block(bytes) ==
    bytes \o <<128>> \o SubSeq(Zeros55, 1, 55 - Len(bytes))
          \o <<(8 * Len(bytes)) % 256, (8 * Len(bytes)) \div 256, 0, 0, 0, 0, 0, 0>>

\* word g (0..15) of the block, little-endian
Md5Word(block, g) ==
    <<block[4 * g + 4] * 256 + block[4 * g + 3],
      block[4 * g + 2] * 256 + block[4 * g + 1]>>

\* one of the 64 rounds: st = <<A, B, C, D>> before round r
Md5Step(block, st, r) ==
    LET A == st[1]
        B == st[2]
        C == st[3]
        D == st[4]
        F == CASE r < 16 -> WOr(WAnd(B, C), WAnd(WNot(B), D))
               [] r >= 16 /\ r < 32 -> WOr(WAnd(D, B), WAnd(WNot(D), C))
               [] r >= 32 /\ r < 48 -> WXor(B, WXor(C, D))
               [] OTHER -> WXor(C, WOr(B, WNot(D)))
        g == CASE r < 16 -> r
               [] r >= 16 /\ r < 32 -> (5 * r + 1) % 16
               [] r >= 32 /\ r < 48 -> (3 * r + 5) % 16
               [] OTHER -> (7 * r) % 16
        T == WAdd(WAdd(F, A), WAdd(Md5K[r + 1], Md5Word(block, g)))
    IN  <<D, WAdd(B, WRotl(T, Md5S[r + 1])), B, C>>

Word32 == (0..(Half - 1)) \X (0..(Half - 1))

\* rounds lo .. hi-1 applied in order to st, the range halved at each level
Md5Rounds(block) ==
    LET run[a \in (Word32 \X Word32 \X Word32 \X Word32) \X (0..64) \X (0..64)] ==
            LET st == a[1]
                lo == a[2]
                hi == a[3]
                mid == (lo + hi) \div 2
            IN  IF hi = lo + 1 THEN Md5Step(block, st, lo)
                ELSE run[<<run[<<st, lo, mid>>], mid, hi>>]
    IN  run[<<Md5Init, 0, 64>>]

\* the four bytes of a word, little-endian
WordBytes(w) == <<w[2] % 256, w[2] \div 256, w[1] % 256, w[1] \div 256>>

\* the 16 digest bytes, from the state st after the 64 rounds
Md5Final(st) ==
    WordBytes(WAdd(Md5Init[1], st[1])) \o WordBytes(WAdd(Md5Init[2], st[2]))
    \o WordBytes(WAdd(Md5Init[3], st[3])) \o WordBytes(WAdd(Md5Init[4], st[4]))

\* md5(bytes).digest().  (A name bound by a singleton set is evaluated once,
\* where it is bound.)
Md5Digest(bytes) ==
    CHOOSE d \in { Md5Final(st) :
                     st \in { Md5Rounds(block) : block \in {Md5Block(bytes)} } } : TRUE

\* the 32 hexadecimal digits of 16 bytes, given by their values 0..15
HexOf(d) ==
    LET hex[k \in 0..16] ==
            IF k = 0 THEN <<>> ELSE hex[k - 1] \o <<d[k] \div 16, d[k] % 16>>
    IN  hex[16]

\* .hexdigest()
HexDigest(bytes) == CHOOSE hex \in { HexOf(d) : d \in {Md5Digest(bytes)} } : TRUE

\* int(hex, 16) % m, digit by digit, the digits halved at each level (the
\* 128-bit integer is never formed)
HexMod(hex, m) ==
    LET pow[n \in 0..Len(hex)] == IF n = 0 THEN 1 % m ELSE (16 * pow[n - 1]) % m
        val[a \in (1..Len(hex)) \X (1..Len(hex))] ==
            LET lo == a[1]
                hi == a[2]
                mid == (lo + hi) \div 2
            IN  IF lo = hi THEN hex[lo] % m
                ELSE (val[<<lo, mid>>] * pow[hi - mid] + val[<<mid + 1, hi>>]) % m
    IN  val[<<1, Len(hex)>>]

(***************************************************************************)
(* The palette (lines 347-367).                                            *)
(***************************************************************************)
COLOR_NAMES ==
    << Text(<<"n","a","v","y">>), Text(<<"b","l","u","e">>), Text(<<"a","q","u","a">>),
       Text(<<"t","e","a","l">>), Text(<<"o","l","i","v","e">>), Text(<<"g","r","e","e","n">>),
       Text(<<"l","i","m","e">>), Text(<<"y","e","l","l","o","w">>),
       Text(<<"o","r","a","n","g","e">>), Text(<<"r","e","d">>),
       Text(<<"m","a","r","o","o","n">>), Text(<<"f","u","c","h","s","i","a">>),
       Text(<<"p","u","r","p","l","e">>), Text(<<"g","r","a","y">>),
       Text(<<"s","i","l","v","e","r">>) >>

\* for each name, in the order of COLOR_NAMES: <<colour, text colour>>
PaletteRGB ==
    << << <<0, 38, 63>>, <<119, 193, 250>> >>,
       << <<0, 120, 210>>, <<173, 220, 252>> >>,
       << <<115, 221, 252>>, <<0, 76, 100>> >>,
       << <<15, 205, 202>>, <<0, 0, 0>> >>,
       << <<52, 153, 114>>, <<25, 58, 45>> >>,
       << <<0, 204, 84>>, <<15, 64, 31>> >>,
       << <<1, 255, 127>>, <<0, 102, 53>> >>,
       << <<255, 216, 70>>, <<103, 87, 28>> >>,
       << <<255, 125, 57>>, <<104, 48, 19>> >>,
       << <<255, 47, 65>>, <<131, 0, 17>> >>,
       << <<135, 13, 75>>, <<239, 117, 173>> >>,
       << <<246, 0, 184>>, <<103, 0, 78>> >>,
       << <<179, 17, 193>>, <<241, 167, 244>> >>,
       << <<168, 168, 168>>, <<0, 0, 0>> >>,
       << <<220, 220, 220>>, <<0, 0, 0>> >> >>

PaletteNames == {COLOR_NAMES[k] : k \in 1..Len(COLOR_NAMES)}

\* the dict _COLOR_NAME_TO_RGB
COLOR_NAME_TO_RGB ==
    [name \in PaletteNames |->
        PaletteRGB[CHOOSE k \in 1..Len(COLOR_NAMES) : COLOR_NAMES[k] = name]]

\* _rgb_to_bgr: list(color), the channels in the order given
rgb_to_bgr(color) == color

(***************************************************************************)
(* Images.  An ndarray of shape (h, w, 3) and dtype uint8 is held as the   *)
(* sequence of the writes made to it: its content when it was created,     *)
(* then the writes of cv2.rectangle and of the slice assignment, in order. *)
(* The value of a pixel is that of the last write that covers it (PixelOf).*)
(***************************************************************************)
Pixels(h, w) == (0..(h - 1)) \X (0..(w - 1))

Black == <<0, 0, 0>>

Font(h, w, ink) == [h |-> h, w |-> w, ink |-> ink]

\* one write: the content at creation ("base"), a cv2.rectangle ("rectangle")
\* or the assignment of a label raster to a slice ("assign")
Write(op, pattern, pt1, pt2, color, thickness, rows, cols, raster, font_color) ==
    [op |-> op, pattern |-> pattern, pt1 |-> pt1, pt2 |-> pt2, color |-> color,
     thickness |-> thickness, rows |-> rows, cols |-> cols, raster |-> raster,
     font_color |-> font_color]

Created(pattern) ==
    <<Write("base", pattern, <<0, 0>>, <<0, 0>>, Black, 0, <<>>, <<>>,
            Font(1, 1, "blank"), Black)>>

\* np.zeros((h, w, 3), dtype=uint8)
BlankPx(h, w) == Created("blank")

\* a picture with content: a horizontal and vertical ramp
RampPx(h, w) == Created("ramp")

\* the thickness handed to cv2.rectangle for the outline of the box
BoxThickness == 15

Abs(v) == IF v < 0 THEN -v ELSE v

\* OpenCV draws a line of thickness t > 1 as a filled quadrilateral reaching
\* (t + 1) / 2 pixels (integer division) to each side of the line, and a filled
\* disc of that radius at each end point (drawing.cpp, ThickLine).
HalfThickness(thickness) == (thickness + 1) \div 2

\* the pairs <<dx, dy>> the midpoint iteration of OpenCV's Circle goes through
\* for a radius: the disc is filled along the rows dy and dx away from the centre
CircleSteps(radius) ==
    LET st[k \in 0..radius] ==
            IF k = 0
            THEN [dx |-> radius, dy |-> 0, err |-> 0, plus |-> 1,
                  minus |-> 2 * radius - 1]
            ELSE LET s == st[k - 1]
                     err1 == s.err + s.plus
                 IN  IF err1 > 0
                     THEN [dx |-> s.dx - 1, dy |-> s.dy + 1, err |-> err1 - s.minus,
                           plus |-> s.plus + 2, minus |-> s.minus - 2]
                     ELSE [dx |-> s.dx, dy |-> s.dy + 1, err |-> err1,
                           plus |-> s.plus + 2, minus |-> s.minus]
    IN  { <<st[k].dx, st[k].dy>> : k \in {j \in 0..radius : st[j].dx >= st[j].dy} }

\* whether the filled disc of a radius paints the pixel dr rows and dc columns
\* away from its centre
DiscCovers(dr, dc, radius) ==
    /\ Abs(dr) <= radius /\ Abs(dc) <= radius
    /\ \E s \in CircleSteps(radius) :
          \/ Abs(dr) = s[2] /\ Abs(dc) <= s[1]
          \/ Abs(dr) = s[1] /\ Abs(dc) <= s[2]

\* Whether cv2.rectangle(img, pt1, pt2, color, thickness) paints pixel p = <<row, col>>.
\* pt1 and pt2 are <<x, y>>.  A negative thickness fills the rectangle, both
\* corners included; a thickness above 1 draws the four edges as thick lines, so
\* the outline is a band around each edge with a disc at each vertex.  Pixels
\* outside the image are clipped by the caller of this operator.
RectCovers(p, pt1, pt2, thickness) ==
    LET x1 == Min(pt1[1], pt2[1])
        x2 == Max(pt1[1], pt2[1])
        y1 == Min(pt1[2], pt2[2])
        y2 == Max(pt1[2], pt2[2])
        hw == HalfThickness(thickness)
        r == p[1]
        c == p[2]
    IN  IF thickness < 0
        THEN x1 <= c /\ c <= x2 /\ y1 <= r /\ r <= y2
        ELSE \/ /\ x1 <= c /\ c <= x2
                /\ Abs(r - y1) <= hw \/ Abs(r - y2) <= hw
             \/ /\ y1 <= r /\ r <= y2
                /\ Abs(c - x1) <= hw \/ Abs(c - x2) <= hw
             \/ \E v \in {<<x1, y1>>, <<x2, y1>>, <<x2, y2>>, <<x1, y2>>} :
                   DiscCovers(r - v[2], c - v[1], hw)

\* cv2.rectangle: the array after the call
cv2_rectangle(px, pt1, pt2, color, thickness) ==
    Append(px, Write("rectangle", "", pt1, pt2, color, thickness, <<>>, <<>>,
                     Font(1, 1, "blank"), Black))

(***************************************************************************)
(* The label raster (lines 378-394).  The font's mask is an input of the   *)
(* model: a raster [h, w, ink] whose mask value at <<r, c>> is given by    *)
(* FontMask.                                                               *)
(***************************************************************************)
FontMask(raster, r, c) ==
    CASE raster.ink = "solid" -> 255
      [] raster.ink = "soft" -> 128
      [] raster.ink = "blank" -> 0
      [] OTHER -> IF (r + c) % 2 = 0 THEN 255 ELSE 64

\* _color_image for one channel of one pixel, a float: the value returned is
\* its numerator over 255
color_image(mask, font_color, background_color) ==
    255 * background_color + (font_color - background_color) * mask

\* _get_label_image: the (h, w, 3) float array, indexed <<r, c>> from 0, each
\* float by its numerator over 255
get_label_image(raster, font_color_tuple_bgr, background_color_tuple_bgr) ==
    [p \in Pixels(raster.h, raster.w) |->
        [ch \in 1..3 |->
            color_image(FontMask(raster, p[1], p[2]),
                        font_color_tuple_bgr[ch], background_color_tuple_bgr[ch])]]

\* the cast of a float in [0, 255] to uint8 when it is stored in the image
ToUint8(numerator) == numerator \div 255

\* the indices a Python slice start:stop selects on an axis of length n
SliceStart(start, n) == IF start < 0 THEN Max(start + n, 0) ELSE Min(start, n)
SliceIndices(start, stop, n) ==
    LET a == SliceStart(start, n)
        b == SliceStart(stop, n)
    IN  IF b > a THEN [k \in 1..(b - a) |-> a + k - 1] ELSE <<>>

(***************************************************************************)
(* add (lines 397-459).                                                    *)
(***************************************************************************)
\* an index that depends on the length of the label alone
LengthIndex(chars) == Len(chars) % Len(COLOR_NAMES)

\* lines 409-410: int(md5(label.encode()).hexdigest(), 16) % len(_COLOR_NAME_TO_RGB)
ColorIndex(chars) ==
    CHOOSE i \in { HexMod(hex, Len(COLOR_NAMES)) :
                     hex \in {HexDigest(Encode(chars))} } : TRUE

\* lines 400-403: the four conversions, left to right; the first one that fails
\* decides the exception, and a ValueError is turned into a TypeError
ConvertCoordinates(left, top, right, bottom) ==
    LET conv == <<PyToInt(left), PyToInt(top), PyToInt(right), PyToInt(bottom)>>
        bad == {k \in 1..4 : ~conv[k].ok}
        first == CHOOSE k \in bad : \A j \in bad : k <= j
    IN  IF bad = {}
        THEN [raised |-> "none", v |-> [k \in 1..4 |-> conv[k].n]]
        ELSE [raised |-> IF conv[first].exc = "ValueError" THEN "TypeError"
                         ELSE conv[first].exc,
              v |-> <<0, 0, 0, 0>>]

NoGeometry ==
    [rectangle_left |-> 0, rectangle_top |-> 0,
     rectangle_right |-> 0, rectangle_bottom |-> 0,
     label_left |-> 0, label_top |-> 0, label_right |-> 0, label_bottom |-> 0,
     flipped |-> FALSE]

\* lines 429-452: where the label rectangle and the label raster go
LabelGeometry(image_width, left, top, label_height, label_width) ==
    LET rectangle_height == 1 + label_height
        rectangle_width == 1 + label_width
        rectangle_bottom0 == top
        rectangle_left == Max(0, Min(left - 1, image_width - rectangle_width))
        rectangle_top0 == rectangle_bottom0 - rectangle_height
        rectangle_right == rectangle_left + rectangle_width
        flipped == rectangle_top0 < 0
        rectangle_top == IF flipped THEN top ELSE rectangle_top0
        rectangle_bottom == IF flipped THEN rectangle_top + label_height + 1
                            ELSE rectangle_bottom0
        label_top == IF flipped THEN rectangle_top ELSE rectangle_top0 + 1
        label_left == rectangle_left + 1
    IN  [rectangle_left |-> rectangle_left, rectangle_top |-> rectangle_top,
         rectangle_right |-> rectangle_right, rectangle_bottom |-> rectangle_bottom,
         label_left |-> label_left, label_top |-> label_top,
         label_right |-> label_left + label_width,
         label_bottom |-> label_top + label_height,
         flipped |-> flipped]

\* line 459: image[label_top:label_bottom, label_left:label_right, :] = label_image.
\* The assignment broadcasts: it is accepted when each axis of the raster has the
\* length of the selection or length 1, and raises ValueError otherwise.
BlitFits(rows, cols, raster) ==
    /\ Len(rows) = raster.h \/ raster.h = 1
    /\ Len(cols) = raster.w \/ raster.w = 1

Blit(px, rows, cols, raster, font_color, background_color) ==
    Append(px, Write("assign", "", <<0, 0>>, <<0, 0>>, background_color, 0,
                     rows, cols, raster, font_color))

\* whether a write covers the pixel p = <<row, col>>
WriteCovers(wr, p) ==
    CASE wr.op = "base" -> TRUE
      [] wr.op = "rectangle" -> RectCovers(p, wr.pt1, wr.pt2, wr.thickness)
      [] wr.op = "assign" ->
            /\ wr.rows # <<>> /\ wr.cols # <<>>
            /\ wr.rows[1] <= p[1] /\ p[1] <= wr.rows[Len(wr.rows)]
            /\ wr.cols[1] <= p[2] /\ p[2] <= wr.cols[Len(wr.cols)]

\* the value a write gives the pixel p it covers
WriteValue(wr, p) ==
    CASE wr.op = "base" ->
            IF wr.pattern = "ramp"
            THEN <<(10 * p[1]) % 256, (10 * p[2]) % 256, 200>>
            ELSE Black
      [] wr.op = "rectangle" -> wr.color
      [] wr.op = "assign" ->
            LET r == IF wr.raster.h = 1 THEN 0 ELSE p[1] - wr.rows[1]
                c == IF wr.raster.w = 1 THEN 0 ELSE p[2] - wr.cols[1]
                label_image == get_label_image(wr.raster, wr.font_color, wr.color)
            IN  [ch \in 1..3 |-> ToUint8(label_image[<<r, c>>][ch])]

\* the value of pixel p = <<row, col>> of an array
PixelOf(px, p) ==
    LET covering == {k \in 1..Len(px) : WriteCovers(px[k], p)}
        last == CHOOSE k \in covering : \A j \in covering : j <= k
    IN  WriteValue(px[last], p)

\* whether two arrays of shape (h, w, 3) differ in a pixel
Differ(px, qx, h, w) ==
    px # qx /\ \E p \in Pixels(h, w) : PixelOf(px, p) # PixelOf(qx, p)

\* what a call leaves behind: the exception raised ("none" when it returns), the
\* pixels of the image argument after the call, the colour name it resolved, and
\* the geometry of the label
AddResult(raised, px, color, auto, boxDrawn, labelled, g) ==
    [raised |-> raised, px |-> px, color |-> color, auto |-> auto,
     boxDrawn |-> boxDrawn, labelled |-> labelled, g |-> g]

\* the resolution lines 413-414 would make if they were not commented out: the
\* default colour when none is given
ResolveWithDefault(label, color) ==
    IF Truthy(label) /\ ~Truthy(color)
    THEN PyStr(COLOR_NAMES[ColorIndex(label.s) + 1])
    ELSE IF ~Truthy(color) THEN PyStr(Text(<<"g", "r", "e", "e", "n">>))
    ELSE color

\* lines 408-411: the colour after the automatic choice
ResolveColor(label, color) ==
    IF Truthy(label) /\ ~Truthy(color)
    THEN PyStr(COLOR_NAMES[ColorIndex(label.s) + 1])
    ELSE color

\* line 405: the check of the label's type
LabelRejected(label) == Truthy(label) /\ label.t # "str"

\* lines 423-459, once the arguments are accepted: colorName is a palette name
Draw(image, c, label, colorName, auto, font) ==
    LET colors == [k \in 1..2 |-> rgb_to_bgr(COLOR_NAME_TO_RGB[colorName][k])]
        color == colors[1]
        color_text == colors[2]
        px1 == cv2_rectangle(image.px, <<c[1], c[2]>>, <<c[3], c[4]>>,
                             color, BoxThickness)
    IN  IF ~Truthy(label)
        THEN AddResult("none", px1, colorName, auto, TRUE, FALSE, NoGeometry)
        ELSE LET g == LabelGeometry(image.w, c[1], c[2], font.h, font.w)
                 px2 == cv2_rectangle(px1,
                            <<g.rectangle_left, g.rectangle_top>>,
                            <<g.rectangle_right, g.rectangle_bottom>>, color, -1)
                 rows == SliceIndices(g.label_top, g.label_bottom, image.h)
                 cols == SliceIndices(g.label_left, g.label_right, image.w)
             IN  IF BlitFits(rows, cols, font)
                 THEN AddResult("none", Blit(px2, rows, cols, font, color_text, color),
                                colorName, auto, TRUE, TRUE, g)
                 ELSE AddResult("ValueError", px2, colorName, auto, TRUE, TRUE, g)

\* a call that raises exc before it draws
Reject(image, exc) ==
    AddResult(exc, image.px, <<>>, FALSE, FALSE, FALSE, NoGeometry)

\* lines 416-459: resolved is the color after lines 408-411
AddResolved(image, c, label, resolved, auto, font) ==
    IF resolved.t # "str" THEN Reject(image, "TypeError")
    ELSE IF resolved.s \notin PaletteNames THEN Reject(image, "ValueError")
    ELSE Draw(image, c, label, resolved.s, auto, font)

\* lines 400-459: conv is the outcome of the four conversions
AddConverted(image, conv, label, color, font) ==
    IF conv.raised # "none" THEN Reject(image, conv.raised)
    ELSE IF LabelRejected(label) THEN Reject(image, "TypeError")
    ELSE IF Truthy(label) /\ ~Truthy(color) /\ ~Encodable(label.s)
    THEN Reject(image, "UnicodeEncodeError")
    ELSE AddResolved(image, conv.v, label, ResolveColor(label, color),
                     Truthy(label) /\ ~Truthy(color), font)

\* add(image, left, top, right, bottom, label, color); font is the raster the
\* font renders for the label
add(image, left, top, right, bottom, label, color, font) ==
    IF image.kind # "ndarray" THEN Reject(image, "TypeError")
    ELSE AddConverted(image, ConvertCoordinates(left, top, right, bottom),
                      label, color, font)

(***************************************************************************)
(* State.                                                                  *)
(*   buffer    the ndarray a client annotates by calling add               *)
(*   call      the arguments of the client's last call of add              *)
(*   out       what that call left behind (AddResult without the pixels,   *)
(*             and whether the call changed a pixel of the buffer)         *)
(*   ncalls    how many calls of add the client has made                   *)
(*   autoUsed  the <<label, colour name>> pairs chosen by lines 408-411,   *)
(*             in the order of the calls                                   *)
(* plot_bboxes (one call):                                                 *)
(*   heap      the pixel arrays that exist, by object identity; object 1   *)
(*             is the caller's image                                       *)
(*   original  the pixels of the caller's image when plot_bboxes is called *)
(*   boxes, colors   the arguments of the call                             *)
(*   combined  the object the local name combined is bound to (0: unbound) *)
(*   idx       the index i of the loop                                     *)
(*   pc        where the call stands: "idle", "start", "loop", "done",     *)
(*             "raised"                                                    *)
(*   drawn     the calls of add made so far, in order                      *)
(*   returned  the object returned (0: none)                               *)
(* decode_segmap (one call):                                               *)
(*   labels, dataset   the arguments of the call                           *)
(*   rgb       what the call returned, or its exception                    *)
(***************************************************************************)
VARIABLES buffer, call, out, ncalls, autoUsed,
          heap, original, boxes, colors, combined, idx, pc, drawn, returned,
          labels, dataset, rgb

addVars == <<buffer, call, out, ncalls, autoUsed>>
batchVars == <<heap, original, boxes, colors, combined, idx, pc, drawn, returned>>
segVars == <<labels, dataset, rgb>>
vars == <<addVars, batchVars, segVars>>

\* the values of the variables of an operation that is not being called
AddIdle ==
    /\ buffer = [kind |-> "ndarray", h |-> 0, w |-> 0, px |-> <<>>]
    /\ call = <<>>
    /\ out = <<>>
    /\ ncalls = 0
    /\ autoUsed = <<>>

BatchIdle ==
    /\ heap = <<>>
    /\ original = <<>>
    /\ boxes = <<>>
    /\ colors = <<>>
    /\ combined = 0
    /\ idx = 0
    /\ pc = "idle"
    /\ drawn = <<>>
    /\ returned = 0

SegIdle ==
    /\ labels = <<>>
    /\ dataset = ""
    /\ rgb = <<>>

car == PyStr(Text(<<"c", "a", "r">>))
dog == PyStr(Text(<<"d", "o", "g">>))
bus == PyStr(Text(<<"b", "u", "s">>))
person == PyStr(Text(<<"p", "e", "r", "s", "o", "n">>))
\* a label outside ASCII: e with an acute accent
accent == PyStr(<<233>>)
red == PyStr(Text(<<"r", "e", "d">>))
navy == PyStr(Text(<<"n", "a", "v", "y">>))
pink == PyStr(Text(<<"p", "i", "n", "k">>))
abc == PyStr(Text(<<"a", "b", "c">>))
\* a label that is a lone surrogate, which has no UTF-8 encoding
lone == PyStr(<<55357>>)

Args(kind, left, top, right, bottom, label, color, font) ==
    [image_kind |-> kind, left |-> left, top |-> top, right |-> right,
     bottom |-> bottom, label |-> label, color |-> color, font |-> font]

NoCall == Args("none", PyNone, PyNone, PyNone, PyNone, PyNone, PyNone,
               Font(1, 1, "blank"))

Summary(res, changed) ==
    [raised |-> res.raised, color |-> res.color, auto |-> res.auto,
     boxDrawn |-> res.boxDrawn, labelled |-> res.labelled, g |-> res.g,
     changed |-> changed]

NoResult ==
    Summary(AddResult("none", <<>>, <<>>, FALSE, FALSE, FALSE, NoGeometry), FALSE)

\* calls that vary the geometry: the box, and the size of the rendered label
GeomArgs ==
    { Args("ndarray", PyInt(l), PyInt(t), PyInt(l + 3), PyInt(t + 3),
           car, red, Font(fh, fw, "solid")) :
        l \in {-3, 0, 6, ImgW - 4, ImgW + 2},
        t \in {-6, -2, 0, 2, 9},
        fh \in {1, 2, 4},
        fw \in {1, 3, ImgW - 1, ImgW + 2} }

CoordValues ==
    {PyInt(2), PyFloat(27), PyFloat(-5), PyStr(Text(<<"4">>)), PyStr(Text(<<"-", "1">>)),
     PyStr(Text(<<" ", "4">>)), PyStr(<<52, 10>>), PyStr(Text(<<"1", "_", "0">>)),
     PyStr(Text(<<"4", "_">>)), PyStr(Text(<<"-", " ", "1">>)), PyStr(Text(<<" ">>)),
     PyStr(<<11, 52>>), PyStr(<<52, 160>>), PyStr(<<28, 52>>), PyStr(<<1636>>),
     abc, PyStr(<<>>), PyNone, PyNaN, PyInf, PyList(2)}

LabelValues ==
    {PyNone, PyStr(<<>>), car, dog, person, accent,
     PyInt(0), PyInt(7), PyList(0), PyList(1)}

ColorValues == {PyNone, PyStr(<<>>), red, navy, pink, PyInt(3), PyList(0)}

\* calls that vary the types of the arguments
TypeArgs ==
    { Args("ndarray", PyInt(2), PyInt(6), PyInt(9), PyInt(12), lb, c,
           Font(2, 3, "checker")) :
        lb \in LabelValues, c \in ColorValues }
    \cup
    { Args("ndarray", v[1], v[2], PyInt(9), PyInt(12), car, red,
           Font(2, 3, "soft")) :
        v \in (CoordValues \X CoordValues) }
    \cup
    { Args("ndarray", PyInt(2), PyInt(6), PyInt(9), v, lb, c, Font(2, 3, "solid")) :
        v \in CoordValues, lb \in {PyNone, car, PyInt(7)}, c \in {PyNone, red, pink} }
    \cup
    { Args("ndarray", PyInt(2), PyInt(6), PyInt(9), PyInt(12), lone, c,
           Font(2, 3, "solid")) :
        c \in {PyNone, PyStr(<<>>)} }
    \cup
    { Args("PIL", l, PyInt(6), PyInt(9), PyInt(12), lb, c, Font(2, 3, "solid")) :
        l \in {PyInt(2), abc}, lb \in {PyNone, car}, c \in {PyNone, red, pink} }

AddArgs == GeomArgs \cup TypeArgs

\* a short list of calls, for behaviours of several calls on one buffer
SeqArgs ==
    { Args("ndarray", PyInt(b[1]), PyInt(b[2]), PyInt(b[1] + 4), PyInt(b[2] + 3),
           lb, PyNone, Font(2, 3, "solid")) :
        b \in {<<2, 6>>, <<ImgW - 3, 1>>},
        lb \in {car, dog, person} }
    \cup
    { Args("ndarray", PyInt(2), PyInt(6), PyInt(9), PyInt(12), a[1], a[2],
           Font(2, 3, "solid")) :
        a \in {<<car, PyStr(<<>>)>>, <<car, navy>>, <<PyNone, red>>,
               <<PyInt(7), PyNone>>, <<lone, PyNone>>} }

InitAdd ==
    /\ buffer \in { [kind |-> "ndarray", h |-> ImgH, w |-> ImgW, px |-> BlankPx(ImgH, ImgW)],
                    [kind |-> "ndarray", h |-> ImgH, w |-> ImgW, px |-> RampPx(ImgH, ImgW)] }
    /\ call = NoCall
    /\ out = NoResult
    /\ ncalls = 0
    /\ autoUsed = <<>>
    /\ BatchIdle
    /\ SegIdle

\* the object handed to add as its image: the buffer, or something that is not an
\* ndarray (a PIL image of the same content)
ImageArgument(kind) == [buffer EXCEPT !.kind = kind]

\* one call add(image, left, top, right, bottom, label, color) by the client
Add(a) ==
    \E res \in { add(ImageArgument(a.image_kind), a.left, a.top, a.right, a.bottom,
                     a.label, a.color, a.font) } :
        /\ buffer' = [buffer EXCEPT !.px = res.px]
        /\ call' = a
        /\ out' = Summary(res, Differ(res.px, buffer.px, buffer.h, buffer.w))
        /\ ncalls' = ncalls + 1
        /\ autoUsed' = IF res.auto THEN Append(autoUsed, <<a.label.s, res.color>>)
                       ELSE autoUsed
        /\ UNCHANGED <<batchVars, segVars>>

\* a client that makes one call
AddOnce == ncalls = 0 /\ \E a \in AddArgs : Add(a)

\* a client that makes up to MaxCalls calls on the same buffer
AddAgain == ncalls < MaxCalls /\ \E a \in SeqArgs : Add(a)

SpecAdd == InitAdd /\ [][AddOnce]_vars
SpecSeq == InitAdd /\ [][AddAgain]_vars

(***************************************************************************)
(* plot_bboxes (lines 114-172).                                            *)
(***************************************************************************)
\* a BBox2D: x, y, w, h, the class index label, and the score in units of 1/10000
Box(x, y, w, h, label, score) ==
    [x |-> x, y |-> y, w |-> w, h |-> h, label |-> label, score |-> score]

\* the "Label Name" column of label_mappings, by position
LabelNames == <<car, bus, person>>

\* line 153: label_mappings.iloc[box.label]["Label Name"]; a position outside
\* -n .. n-1 raises IndexError, a negative one counts from the end
iloc(names, k) ==
    LET n == Len(names)
    IN  IF k >= n \/ k < -n THEN [raised |-> "IndexError", v |-> PyNone]
        ELSE [raised |-> "none", v |-> names[(IF k < 0 THEN k + n ELSE k) + 1]]

\* the decimal digits of a natural number
DigitsOf(n) ==
    LET ds[k \in Nat] == IF k < 10 THEN <<Ord("0") + k>>
                         ELSE Append(ds[k \div 10], Ord("0") + (k % 10))
    IN  ds[n]

\* line 158: f"{box.score * 100: .2f}", the score being score / 10000: a space
\* (or a minus sign), the percentage's integer part, and two decimals
ScoreText(score) ==
    LET a == IF score < 0 THEN -score ELSE score
    IN  <<IF score < 0 THEN Ord("-") ELSE Ord(" ")>> \o DigitsOf(a \div 100) \o Text(<<".">>)
        \o <<Ord("0") + ((a % 100) \div 10), Ord("0") + (a % 10)>>

\* line 158: f"{label}: {box.score * 100: .2f}%"
ScoredLabel(label, score) ==
    PyStr(label.s \o Text(<<":", " ">>) \o ScoreText(score) \o Text(<<"%">>))

\* line 370: the size, in pixels, at which the font is loaded (its em)
FONT_HEIGHT == 100

\* The glyphs of font/arial.ttf, in hundredths of the em: the advance width of a
\* character, whether it has ink, and the top and bottom of its ink above the
\* baseline.  Lower-case letters without ascender reach the x-height, b, d, the
\* digits and the percent sign the cap height, and g, p go below the baseline.
Glyph(c) ==
    LET G(advance, ink, top, bottom) ==
            [advance |-> advance, ink |-> ink, top |-> top, bottom |-> bottom]
    IN  CASE c = Ord(" ") -> G(28, FALSE, 0, 0)
          [] c \in {Ord("c"), Ord("s")} -> G(50, TRUE, 53, -1)
          [] c = Ord("r") -> G(33, TRUE, 53, -1)
          [] c \in {Ord("a"), Ord("e"), Ord("n"), Ord("o"), Ord("u")} -> G(56, TRUE, 53, -1)
          [] c \in {Ord("g"), Ord("p")} -> G(56, TRUE, 53, -21)
          [] c = Ord(":") -> G(28, TRUE, 53, -1)
          [] c = Ord(".") -> G(28, TRUE, 9, 0)
          [] c = Ord("-") -> G(33, TRUE, 32, 23)
          [] c = Ord("%") -> G(89, TRUE, 73, -1)
          [] OTHER -> G(56, TRUE, 73, -1)

\* a length in hundredths of the em, in pixels at the size of the font
FontPixels(v) == (v * FONT_HEIGHT) \div 100

\* what _FONT.getmask renders for a text (line 383): a bitmap as wide as the
\* advance widths of the characters together and as high as their ink, from the
\* highest top to the lowest bottom (no row when no character has ink)
RenderedMask(text) ==
    LET width[k \in 0..Len(text)] ==
            IF k = 0 THEN 0 ELSE width[k - 1] + FontPixels(Glyph(text[k]).advance)
        inked == {k \in 1..Len(text) : Glyph(text[k]).ink}
        top == CHOOSE t \in {FontPixels(Glyph(text[k]).top) : k \in inked} :
                  \A j \in inked : FontPixels(Glyph(text[j]).top) <= t
        bottom == CHOOSE b \in {FontPixels(Glyph(text[k]).bottom) : k \in inked} :
                     \A j \in inked : b <= FontPixels(Glyph(text[j]).bottom)
    IN  Font(IF inked = {} THEN 0 ELSE top - bottom, width[Len(text)], "checker")

\* the colors argument: None, or a list of values
NoColors == [given |-> FALSE, items |-> <<>>]
ColorList(items) == [given |-> TRUE, items |-> items]

\* a new object holding the pixels px
Alloc(h, px) == [heap |-> Append(h, px), ref |-> Len(h) + 1]

\* the same object under another name
AliasArray(h, ref) == [heap |-> h, ref |-> ref]

\* lines 131-132: np.array(image.copy()), a new array with the image's pixels
CopyToArray(h, ref) == Alloc(h, h[ref])

\* line 172: Image.fromarray(combined), a new image with the array's pixels
fromarray(h, ref) == Alloc(h, h[ref])

\* the first box, whatever the iteration
FirstBox(bs, i) == bs[1]

\* line 136: the box the i-th iteration of enumerate(boxes) handles (i from 0)
BoxAt(bs, i) == bs[i + 1]

\* line 167: colors[i]
ColorAt(cs, i) ==
    IF i >= Len(cs.items) THEN [raised |-> "IndexError", v |-> PyNone]
    ELSE [raised |-> "none", v |-> cs.items[i + 1]]

\* lines 151-168: the arguments of the call of add for box number i, or the
\* exception raised before it
BoxCall(bs, cs, i) ==
    LET box == BoxAt(bs, i)
        name == iloc(LabelNames, box.label)
        unset == ~cs.given \/ cs.items = <<>>
        color == ColorAt(cs, i)
        label == IF unset THEN name.v ELSE ScoredLabel(name.v, box.score)
        raised == IF name.raised # "none" THEN name.raised
                  ELSE IF unset THEN "none"
                  ELSE color.raised
    IN  [raised |-> raised, box |-> i,
         left |-> box.x, top |-> box.y,
         right |-> box.x + box.w, bottom |-> box.y + box.h,
         label |-> IF raised = "none" THEN label ELSE PyNone,
         color |-> IF raised = "none" /\ ~unset THEN color.v ELSE PyNone]

\* the call add(combined, left, top, right, bottom, label=label, color=color)
BoxAdd(px, c) ==
    add([kind |-> "ndarray", h |-> BatchH, w |-> BatchW, px |-> px],
        PyInt(c.left), PyInt(c.top), PyInt(c.right), PyInt(c.bottom),
        c.label, c.color, RenderedMask(c.label.s))

\* a box with its label above it, one that overlaps it, one near the top of the
\* image (its label goes below its top edge) and one whose class has no name
BoxKinds ==
    { Box(10, 105, 40, 20, 0, 9000),
      Box(30, 112, 50, 15, 1, 1234),
      Box(BatchW - 60, 10, 30, 25, 2, 10000),
      Box(4, 9, 3, 2, 5, 10000) }

BoxLists == UNION { [1..n -> BoxKinds] : n \in 0..MaxBoxes }

ColorArgs ==
    { NoColors, ColorList(<<>>), ColorList(<<red, navy>>), ColorList(<<navy>>),
      ColorList(<<red, pink>>) }

InitBatch ==
    /\ original \in {RampPx(BatchH, BatchW), BlankPx(BatchH, BatchW)}
    /\ heap = <<original>>
    /\ boxes \in BoxLists
    /\ colors \in ColorArgs
    /\ combined = 0
    /\ idx = 0
    /\ pc = "start"
    /\ drawn = <<>>
    /\ returned = 0
    /\ AddIdle
    /\ SegIdle

\* lines 131-132
BatchCopy ==
    /\ pc = "start"
    /\ LET c == CopyToArray(heap, 1)
       IN  heap' = c.heap /\ combined' = c.ref
    /\ pc' = "loop"
    /\ UNCHANGED <<original, boxes, colors, idx, drawn, returned, addVars, segVars>>

\* lines 136-168: one iteration of the loop
BatchBox ==
    /\ pc = "loop"
    /\ idx < Len(boxes)
    /\ \E c \in {BoxCall(boxes, colors, idx)} :
           IF c.raised # "none"
           THEN /\ pc' = "raised"
                /\ UNCHANGED <<heap, drawn, idx>>
           ELSE \E res \in {BoxAdd(heap[combined], c)} :
                /\ heap' = [heap EXCEPT ![combined] = res.px]
                /\ drawn' = Append(drawn, [raised |-> res.raised, used |-> res.color,
                                           box |-> c.box, left |-> c.left, top |-> c.top,
                                           right |-> c.right, bottom |-> c.bottom,
                                           label |-> c.label, color |-> c.color])
                /\ IF res.raised = "none"
                   THEN pc' = pc /\ idx' = idx + 1
                   ELSE pc' = "raised" /\ idx' = idx
    /\ UNCHANGED <<original, boxes, colors, combined, returned, addVars, segVars>>

\* line 172
BatchReturn ==
    /\ pc = "loop"
    /\ idx = Len(boxes)
    /\ LET r == fromarray(heap, combined)
       IN  heap' = r.heap /\ returned' = r.ref
    /\ pc' = "done"
    /\ UNCHANGED <<original, boxes, colors, combined, idx, drawn, addVars, segVars>>

NextBatch == BatchCopy \/ BatchBox \/ BatchReturn

SpecBatch == InitBatch /\ [][NextBatch]_vars

(***************************************************************************)
(* decode_segmap (lines 21-46).  A float of the result is a fraction       *)
(* <<numerator, denominator>> in lowest terms.                             *)
(***************************************************************************)
GCD(a, b) ==
    LET g[p \in Nat \X Nat] == IF p[2] = 0 THEN p[1] ELSE g[<<p[2], p[1] % p[2]>>]
    IN  g[<<a, b>>]

Fraction(n, d) == IF n = 0 THEN <<0, 1>> ELSE <<n \div GCD(n, d), d \div GCD(n, d)>>

\* line 42: a row of np.zeros((h, w, 3))
ZeroPixel == [ch \in 1..3 |-> Fraction(0, 1)]

\* entries of CITYSCAPES_COLOR_MAPPING (line 14), in the order of the dictionary:
\* class id, then the color
CityscapesColorMapping ==
    << <<7, <<128, 64, 128>> >>, <<24, <<220, 20, 60>> >>, <<26, <<0, 0, 142>> >> >>

\* the color as it is: an array of integers
Unscaled(color) == [ch \in 1..3 |-> Fraction(color[ch], 1)]

\* line 46: color / 255.0
Scaled(color) == [ch \in 1..3 |-> Fraction(color[ch], 255)]

\* lines 43-46: the loop over the items of the mapping; each turn assigns the
\* scaled color to the pixels the mask labels == id selects
PaintClasses(lab, mapping) ==
    LET paint[k \in 0..Len(mapping)] ==
            IF k = 0 THEN [p \in DOMAIN lab |-> ZeroPixel]
            ELSE [p \in DOMAIN lab |->
                     IF lab[p] = mapping[k][1] THEN Scaled(mapping[k][2])
                     ELSE paint[k - 1][p]]
    IN  paint[Len(mapping)]

\* decode_segmap(labels, dataset)
decode_segmap(lab, ds) ==
    IF ds = "cityscapes"
    THEN [raised |-> "none", h |-> lab.h, w |-> lab.w, channels |-> 3,
          px |-> PaintClasses(lab.px, CityscapesColorMapping)]
    ELSE [raised |-> "ValueError", h |-> 0, w |-> 0, channels |-> 0, px |-> <<>>]

\* the class ids of the label arrays: two mapped ones and one that is not
SegIds == {7, 26, 99}

InitSeg ==
    /\ labels \in { [h |-> SegH, w |-> SegW, px |-> f] :
                        f \in [Pixels(SegH, SegW) -> SegIds] }
    /\ dataset \in {"cityscapes", "kitti"}
    /\ rgb = <<>>
    /\ AddIdle
    /\ BatchIdle

Decode ==
    /\ rgb = <<>>
    /\ rgb' = decode_segmap(labels, dataset)
    /\ UNCHANGED <<labels, dataset, addVars, batchVars>>

SpecSeg == InitSeg /\ [][Decode]_vars

(***************************************************************************)
(* Properties.                                                             *)
(***************************************************************************)
\* the client has called add
Called == ncalls > 0

\* the coordinates of the last call, as they were passed
CoordArgs == <<call.left, call.top, call.right, call.bottom>>

Convertible == \A k \in 1..4 : PyToInt(CoordArgs[k]).ok

\* the last call passed a label for which add renders a label
Labelled == Called /\ out.labelled

\* the pixels of the image handed to plot_bboxes that lie within the outline of
\* a box, its thick border included
BoxWindow(left, top, right, bottom) ==
    LET hw == HalfThickness(BoxThickness)
    IN  (Max(0, top - hw)..Min(BatchH - 1, bottom + hw))
            \X (Max(0, left - hw)..Min(BatchW - 1, right + hw))

\* C1: plot_bboxes never alters the caller's image: at every point of the call,
\* also after an exception raised part-way through the loop, the pixels of the
\* caller's image are those it had when the call began; the boxes are drawn on
\* another array, and the image returned is a third object with that array's pixels.
C1_OriginalUntouched ==
    pc # "idle" =>
        /\ heap[1] = original
        /\ combined # 1
        /\ returned # 1
        /\ returned # 0 => heap[returned] = heap[combined]
        /\ \A k \in 1..Len(heap) :
              heap[k] # original => k = combined \/ k = returned

\* a call that raised at its second box, after the first box was drawn on the copy
C1_Witness ==
    /\ pc = "raised"
    /\ Len(drawn) = 2
    /\ drawn[2].raised = "ValueError"
    /\ \E p \in BoxWindow(drawn[1].left, drawn[1].top, drawn[1].right, drawn[1].bottom) :
          PixelOf(heap[combined], p) # PixelOf(original, p)
    /\ heap[1] = original

\* the index of the palette that hashlib.md5 gives the labels of the calls:
\*   car    e6d96502596d7e7887b76646c5f615d9   mod 15 = 5
\*   dog    06d80eb0c50b49a509b49f2424e8c805   mod 15 = 5
\*   person 8b0a44048f58988b486bdd0d245b22a8   mod 15 = 0
\*   bus    d20f83ee6933aa1ea047fe5cbd9c1fd5   mod 15 = 1
ReferenceIndex(chars) ==
    CASE chars = Text(<<"c", "a", "r">>) -> 5
      [] chars = Text(<<"d", "o", "g">>) -> 5
      [] chars = Text(<<"p", "e", "r", "s", "o", "n">>) -> 0
      [] chars = Text(<<"b", "u", "s">>) -> 1

\* C2: the color add chooses for a non-empty label passed without a color is the
\* palette name at index md5(label) mod 15: it is one of the 15 names, and in any
\* sequence of calls two calls with the same label use the same name.
C2_AutoColorStable ==
    /\ \A k \in 1..Len(autoUsed) :
          /\ autoUsed[k][2] \in PaletteNames
          /\ autoUsed[k][2] = COLOR_NAMES[ReferenceIndex(autoUsed[k][1]) + 1]
    /\ \A j, k \in 1..Len(autoUsed) :
          autoUsed[j][1] = autoUsed[k][1] => autoUsed[j][2] = autoUsed[k][2]
    /\ (Called /\ out.raised = "none" /\ call.label.t = "str"
          /\ call.label.s # <<>> /\ ~Truthy(call.color)) =>
            /\ out.auto
            /\ autoUsed[Len(autoUsed)] = <<call.label.s, out.color>>
    /\ Len(COLOR_NAMES) = 15 /\ Cardinality(PaletteNames) = 15

\* two calls with the same label and no color, at different places
C2_Witness ==
    /\ ncalls = 2
    /\ Len(autoUsed) = 2
    /\ autoUsed[1][1] = autoUsed[2][1]
    /\ autoUsed[2][2] = Text(<<"g", "r", "e", "e", "n">>)

\* C3: in every call of add with a label the horizontal extent of the label
\* rectangle, rectangle_left through rectangle_right, lies within [0, image_width).
C3_LabelWithinWidth ==
    Labelled =>
        /\ 0 <= out.g.rectangle_left
        /\ out.g.rectangle_right < buffer.w

\* a label wider than the image: the rectangle reaches past the right bound, and
\* the assignment of the raster raises ValueError after the box was drawn
C3_PastRightBound ==
    /\ Labelled
    /\ out.g.rectangle_left = 0
    /\ out.g.rectangle_right > buffer.w
    /\ out.raised = "ValueError"
    /\ out.changed

\* C4: in every call of add with a label the label rectangle does not reach above
\* row 0 and no negative row index is used to fill it or to write the glyph raster;
\* when the placement flips, the rectangle's top is the top of the box.
C4_LabelNotAboveRowZero ==
    Labelled =>
        /\ out.g.rectangle_top >= 0
        /\ out.g.label_top >= 0
        /\ out.g.flipped => out.g.rectangle_top = PyToInt(call.top).n

\* a box whose top is above the image: the flipped placement starts at a negative row
C4_NegativeRow ==
    /\ Labelled
    /\ out.g.flipped
    /\ PyToInt(call.top).n < 0
    /\ out.g.rectangle_top < 0
    /\ out.g.label_top < 0

\* C5: a call of add with an image that is not an ndarray, or with a coordinate
\* that int() cannot convert, raises TypeError; a call with a color name that is not
\* in the palette raises the unknown-color error (ValueError); in each case no
\* pixel of the image is changed.
C5_RejectedCallsDrawNothing ==
    Called =>
        /\ call.image_kind # "ndarray" =>
              out.raised = "TypeError" /\ ~out.changed
        /\ (call.image_kind = "ndarray" /\ ~Convertible) =>
              out.raised = "TypeError" /\ ~out.changed
        /\ ( /\ call.image_kind = "ndarray"
             /\ Convertible
             /\ ~LabelRejected(call.label)
             /\ ~(Truthy(call.label) /\ ~Truthy(call.color))
             /\ call.color.t = "str"
             /\ call.color.s \notin PaletteNames ) =>
              out.raised = "ValueError" /\ ~out.changed

\* an infinite coordinate: int() raises OverflowError, which add does not turn into
\* a TypeError
C5_OverflowError ==
    /\ Called
    /\ call.image_kind = "ndarray"
    /\ call.left = PyInf
    /\ out.raised = "OverflowError"
    /\ ~out.changed

\* C6: every call of add whose label is given (not None) and is not a string
\* raises TypeError, whatever the label's value and whatever the color.
C6_NonStringLabelRaises ==
    (Called /\ call.label.t \notin {"NoneType", "str"}) => out.raised = "TypeError"

\* the label 0 with the color red: nothing is raised and the box is drawn
C6_FalsyLabelAccepted ==
    /\ Called
    /\ call.label = PyInt(0)
    /\ call.color = red
    /\ out.raised = "none"
    /\ out.boxDrawn
    /\ ~out.labelled

\* the entries of the color mapping with class id `id`
EntriesOf(id) ==
    {k \in 1..Len(CityscapesColorMapping) : CityscapesColorMapping[k][1] = id}

\* C7: decode_segmap maps each pixel by its own class id: the output has the
\* height and width of the label array and 3 channels; a pixel whose id is a key
\* of the mapping is mapping[id] / 255, and a pixel whose id is not a key is zero.
C7_DecodePixelwise ==
    (rgb # <<>> /\ dataset = "cityscapes") =>
        /\ rgb.raised = "none"
        /\ rgb.h = labels.h /\ rgb.w = labels.w /\ rgb.channels = 3
        /\ DOMAIN rgb.px = Pixels(labels.h, labels.w)
        /\ \A p \in Pixels(labels.h, labels.w) :
              /\ DOMAIN rgb.px[p] = 1..3
              /\ \A k \in EntriesOf(labels.px[p]) : \A ch \in 1..3 :
                    /\ rgb.px[p][ch][1] * 255
                         = CityscapesColorMapping[k][2][ch] * rgb.px[p][ch][2]
                    /\ rgb.px[p][ch][2] > 0
              /\ EntriesOf(labels.px[p]) = {} =>
                    \A ch \in 1..3 : rgb.px[p][ch][1] = 0

\* a decoded array with a mapped class and an unmapped class in it
C7_Witness ==
    /\ rgb # <<>>
    /\ rgb.raised = "none"
    /\ \E p, q \in Pixels(labels.h, labels.w) :
          /\ labels.px[p] = 7 /\ rgb.px[p] = << <<128, 255>>, <<64, 255>>, <<128, 255>> >>
          /\ labels.px[q] = 99 /\ rgb.px[q] = << <<0, 1>>, <<0, 1>>, <<0, 1>> >>

\* the percentage Python formats for the scores of the boxes: f"{0.9 * 100: .2f}"
\* is " 90.00", f"{0.1234 * 100: .2f}" is " 12.34", f"{1.0 * 100: .2f}" is " 100.00"
ReferencePercent(score) ==
    CASE score = 9000 -> Text(<<" ", "9", "0", ".", "0", "0">>)
      [] score = 1234 -> Text(<<" ", "1", "2", ".", "3", "4">>)
      [] score = 10000 -> Text(<<" ", "1", "0", "0", ".", "0", "0">>)

ColorsSupplied == colors.given /\ colors.items # <<>>

\* the array after the first k boxes are drawn one after the other, in the order
\* of the sequence
DrawnInOrder(k) ==
    LET px[j \in 0..Len(boxes)] ==
            IF j = 0 THEN original
            ELSE LET b == boxes[j]
                     name == LabelNames[b.label + 1]
                     label == IF ColorsSupplied
                              THEN PyStr(name.s \o Text(<<":", " ">>)
                                         \o ReferencePercent(b.score) \o Text(<<"%">>))
                              ELSE name
                 IN  add([kind |-> "ndarray", h |-> BatchH, w |-> BatchW, px |-> px[j - 1]],
                         PyInt(b.x), PyInt(b.y), PyInt(b.x + b.w), PyInt(b.y + b.h),
                         label,
                         IF ColorsSupplied THEN colors.items[j] ELSE PyNone,
                         RenderedMask(label.s)).px
    IN  px[k]

\* C8: plot_bboxes handles the boxes one by one in the order of the sequence, each
\* once: the k-th call of add is for box k; with a colors sequence its color is
\* colors[k] and its label the mapped name followed by the score as a percentage;
\* without one its label is the bare mapped name and the color the one add derives
\* from it; the result is the image with the boxes drawn in that order, so that a
\* later box overwrites an earlier one.
C8_BoxesInOrder ==
    pc \in {"loop", "raised", "done"} =>
        /\ \A k \in 1..Len(drawn) :
              LET b == boxes[k]
                  name == LabelNames[b.label + 1]
              IN  /\ drawn[k].box = k - 1
                  /\ <<drawn[k].left, drawn[k].top, drawn[k].right, drawn[k].bottom>>
                       = <<b.x, b.y, b.x + b.w, b.y + b.h>>
                  /\ ColorsSupplied =>
                        /\ drawn[k].color = colors.items[k]
                        /\ drawn[k].label.s = name.s \o Text(<<":", " ">>)
                                              \o ReferencePercent(b.score) \o Text(<<"%">>)
                  /\ ~ColorsSupplied =>
                        /\ drawn[k].color = PyNone
                        /\ drawn[k].label = name
                        /\ drawn[k].raised = "none" =>
                              drawn[k].used = COLOR_NAMES[ReferenceIndex(name.s) + 1]
        /\ pc # "raised" => Len(drawn) = idx
        /\ pc = "done" =>
              /\ Len(drawn) = Len(boxes)
              /\ heap[returned] = DrawnInOrder(Len(boxes))
              /\ Len(boxes) > 0 =>
                    LET last == drawn[Len(boxes)]
                        mask == RenderedMask(last.label.s)
                        g == LabelGeometry(BatchW, last.left, last.top, mask.h, mask.w)
                    IN  \A p \in BoxWindow(last.left, last.top, last.right, last.bottom) :
                          ( /\ RectCovers(p, <<last.left, last.top>>,
                                          <<last.right, last.bottom>>, BoxThickness)
                            /\ ~RectCovers(p, <<g.label_left, g.label_top>>,
                                           <<g.label_right - 1, g.label_bottom - 1>>,
                                           -1) ) =>
                            PixelOf(heap[returned], p) = COLOR_NAME_TO_RGB[last.used][1]

\* two boxes drawn with the colors of the list, the second over the first
C8_Witness ==
    /\ pc = "done"
    /\ Len(drawn) = 2
    /\ drawn[1].color = red /\ drawn[2].color = navy
    /\ drawn[1].box = 0 /\ drawn[2].box = 1
    /\ boxes[1] # boxes[2]
    /\ drawn[2].label.s = Text(<<"b", "u", "s", ":", " ",
                            " ", "1", "2", ".", "3", "4", "%">>)
    /\ \E p \in BoxWindow(drawn[1].left, drawn[1].top, drawn[1].right, drawn[1].bottom) :
          /\ RectCovers(p, <<drawn[1].left, drawn[1].top>>,
                        <<drawn[1].right, drawn[1].bottom>>, BoxThickness)
          /\ RectCovers(p, <<drawn[2].left, drawn[2].top>>,
                        <<drawn[2].right, drawn[2].bottom>>, BoxThickness)
          /\ PixelOf(heap[returned], p) = COLOR_NAME_TO_RGB[drawn[2].used][1]
          /\ PixelOf(heap[returned], p) # COLOR_NAME_TO_RGB[drawn[1].used][1]

\* C9: in every call of add with a label the glyph raster is written inside the
\* label rectangle with an inset of one pixel: label_left = rectangle_left + 1,
\* label_top = rectangle_top + 1, and the raster's last row and last column are
\* before rectangle_bottom and rectangle_right.
C9_GlyphInset ==
    Labelled =>
        /\ out.g.label_left = out.g.rectangle_left + 1
        /\ out.g.label_top = out.g.rectangle_top + 1
        /\ out.g.label_bottom - 1 < out.g.rectangle_bottom
        /\ out.g.label_right - 1 < out.g.rectangle_right

\* the flipped placement: the raster starts at the rectangle's first row and ends
\* two rows before its last
C9_FlippedNoInset ==
    /\ Labelled
    /\ out.g.flipped
    /\ out.raised = "none"
    /\ out.g.label_top = out.g.rectangle_top
    /\ out.g.label_bottom - 1 = out.g.rectangle_bottom - 2

\* C10: add draws only with a color it has resolved to one of the 15 palette
\* names: a call that drew, or changed a pixel, used a palette name; a call with an
\* ndarray and convertible coordinates but neither a label nor a color raises
\* TypeError and draws nothing.
C10_NoDrawingUnresolved ==
    Called =>
        /\ out.changed => out.boxDrawn
        /\ out.boxDrawn => out.color \in PaletteNames
        /\ (out.boxDrawn /\ Truthy(call.color)) => out.color = call.color.s
        /\ ( /\ call.image_kind = "ndarray"
             /\ Convertible
             /\ call.label = PyNone
             /\ call.color = PyNone ) =>
              /\ out.raised = "TypeError"
              /\ ~out.boxDrawn
              /\ ~out.changed

\* a call with neither a label nor a color on an ndarray, which raised
C10_Witness ==
    /\ Called
    /\ call.image_kind = "ndarray"
    /\ Convertible
    /\ call.label = PyNone
    /\ call.color = PyNone
    /\ out.raised = "TypeError"
    /\ ~out.changed
====
